---- MODULE Spec2Model ----
(***************************************************************************)
(* Model of the Thoughtful AI support agent (src/src/main.rs): the startup *)
(* that loads qa_data.json and builds the TF-IDF index, and the            *)
(* interactive loop that answers one trimmed line per turn.                *)
(*                                                                         *)
(* Strings are sequences of one-character strings.  An f64 is modelled as  *)
(* an exact rational, as NaN, or as f64::MIN.  The IEEE rules the program  *)
(* depends on are modelled: 0/0 is NaN and every ordered comparison with   *)
(* NaN is false.  Rounding is not: where the model holds two similarities  *)
(* equal, or one equal to 0.5, the program's may differ in the last place. *)
(* A cosine similarity is the non-negative real held by its square, so     *)
(* that sqrt needs no irrational value.                                    *)
(***************************************************************************)
EXTENDS Integers, Sequences, FiniteSets, TLC

\* ------------------------------------------------------------------ bounds
\* The greatest number of entries of the "questions" array of qa_data.json.
MaxEntries == 2

\* ----------------------------------------------------------------- strings
\* char::is_whitespace, on the characters of the model.
IsWhitespace(c) == c \in {" ", "\n"}

\* The uppercase letters of the model and their lowercase.
LowerOf == [c \in {"A", "E", "X", "I", "T"} |->
              CASE c = "A" -> "a" [] c = "E" -> "e" [] c = "X" -> "x"
                [] c = "I" -> "i" [] c = "T" -> "t"]

ToLowerChar(c) == IF c \in DOMAIN LowerOf THEN LowerOf[c] ELSE c

\* str::to_lowercase
to_lowercase(s) == [i \in 1..Len(s) |-> ToLowerChar(s[i])]

\* A comparison that keeps the case of the letters.
eq_with_case(s, t) == s = t

\* str::eq_ignore_ascii_case
eq_ignore_ascii_case(s, t) == to_lowercase(s) = to_lowercase(t)

RECURSIVE TrimStart(_)
TrimStart(s) ==
    IF s # <<>> /\ IsWhitespace(Head(s)) THEN TrimStart(Tail(s)) ELSE s

RECURSIVE TrimEnd(_)
TrimEnd(s) ==
    IF s # <<>> /\ IsWhitespace(s[Len(s)])
    THEN TrimEnd(SubSeq(s, 1, Len(s) - 1)) ELSE s

\* str::trim
trim(s) == TrimEnd(TrimStart(s))

\* str::split_whitespace: the maximal runs of non-whitespace, in order.
\* cur is the run being read, acc the runs already closed.
RECURSIVE SplitFrom(_, _, _)
SplitFrom(s, cur, acc) ==
    IF s = <<>> THEN (IF cur = <<>> THEN acc ELSE Append(acc, cur))
    ELSE IF IsWhitespace(Head(s))
         THEN SplitFrom(Tail(s), <<>>, IF cur = <<>> THEN acc ELSE Append(acc, cur))
         ELSE SplitFrom(Tail(s), Append(cur, Head(s)), acc)

split_whitespace(s) == SplitFrom(s, <<>>, <<>>)

\* question.to_lowercase().split_whitespace().collect::<Vec<String>>()
Words(s) == split_whitespace(to_lowercase(s))

\* The same, collected into a HashSet.
WordSet(s) == {Words(s)[i] : i \in 1..Len(Words(s))}

\* The tf map of compute_tfidf and compute_input_vector: occurrences per word.
TermCount(words) ==
    [w \in {words[i] : i \in 1..Len(words)} |->
        Cardinality({i \in 1..Len(words) : words[i] = w})]

\* ------------------------------------------------------------------ numbers
\* The element of a one-element set: {e : x \in {v}} names the value v once.
Only(S) == CHOOSE x \in S : TRUE

RECURSIVE Gcd(_, _)
Gcd(a, b) == IF b = 0 THEN a ELSE Gcd(b, a % b)

Abs(x) == IF x < 0 THEN -x ELSE x

\* The rational n/d in lowest terms, d > 0.
Rat(n, d) ==
    LET g == Gcd(Abs(n), Abs(d))
        s == IF d < 0 THEN -1 ELSE 1
    IN  [n |-> s * (n \div g), d |-> s * (d \div g)]

Zero == Rat(0, 1)

RMul(x, y) ==
    Only({Rat(a.n * b.n, a.d * b.d) : a \in {Rat(x.n, y.d)}, b \in {Rat(y.n, x.d)}})

RDiv(x, y) == RMul(x, [n |-> y.d, d |-> y.n])

RAdd(x, y) ==
    Only({Rat(x.n * (y.d \div g) + y.n * (x.d \div g), x.d * (y.d \div g)) :
             g \in {Gcd(x.d, y.d)}})

\* x > y for rationals x, y >= 0, by their continued fractions, so that no
\* cross product is formed.
RECURSIVE RGt(_, _)
RGt(x, y) ==
    LET qx == x.n \div x.d
        qy == y.n \div y.d
        rx == x.n % x.d
        ry == y.n % y.d
    IN  IF qx # qy THEN qx > qy
        ELSE IF rx = 0 THEN FALSE
        ELSE IF ry = 0 THEN TRUE
        ELSE RGt([n |-> y.d, d |-> ry], [n |-> x.d, d |-> rx])

RECURSIVE RSum(_, _)
\* The sum of f[k] over the keys k in S.
RSum(f, S) ==
    IF S = {} THEN Zero
    ELSE Only({RAdd(f[k], rest) : rest \in {RSum(f, S \ {Only(S)})}, k \in {Only(S)}})

\* f64 values.  A rational stands for itself; a similarity is [k |-> "num",
\* sq |-> r], the real s >= 0 with s * s = r.
NaN == [k |-> "nan"]

\* f64::MIN, below every similarity.
F64Min == [k |-> "min"]

Sim(r) == [k |-> "num", sq |-> r]

\* The literal 0.5 of get_response, as a similarity.
Half == Sim(Rat(1, 4))

\* x > y on f64: false when either side is NaN.
F64Gt(x, y) ==
    IF x.k = "nan" \/ y.k = "nan" THEN FALSE
    ELSE IF x.k = "min" THEN FALSE
    ELSE IF y.k = "min" THEN TRUE
    ELSE RGt(x.sq, y.sq)

\* The natural logarithms of 1..6 in hundredths, f64::ln being
\* transcendental.  In a catalog of two questions only ln 2 occurs, and it
\* cancels in every cosine.
LnTable == <<0, 69, 110, 139, 161, 179>>

\* (doc_count / count).ln()
Ln(doc_count, count) == Rat(LnTable[doc_count] - LnTable[count], 100)

\* map.get(word).unwrap_or(&0.0)
GetOr0(map, word) == IF word \in DOMAIN map THEN map[word] ELSE Zero

\* ------------------------------------------------------------ compute_tfidf
\* The document frequencies of the words as written, not lowercased.
word_doc_count_as_written(qa) ==
    [w \in UNION {{split_whitespace(q)[i] : i \in 1..Len(split_whitespace(q))} :
                    q \in DOMAIN qa} |->
        Cardinality({q \in DOMAIN qa :
                       w \in {split_whitespace(q)[i] : i \in 1..Len(split_whitespace(q))}})]

\* word_doc_count: for each word, the number of questions that hold it.
word_doc_count(qa) ==
    [w \in UNION {WordSet(q) : q \in DOMAIN qa} |->
        Cardinality({q \in DOMAIN qa : w \in WordSet(q)})]

compute_idf(qa) ==
    LET wdc == word_doc_count(qa)
    IN  [w \in DOMAIN wdc |-> Ln(Cardinality(DOMAIN qa), wdc[w])]

\* The tf-idf map of one text under idf: count / words.len() * idf_value.
tfidf_of(text, idf_map) ==
    Only({[w \in DOMAIN TermCount(words) |->
              RMul(Rat(TermCount(words)[w], Len(words)), GetOr0(idf_map, w))] :
             words \in {Words(text)}})

compute_tfidf_vectors(qa) ==
    Only({[q \in DOMAIN qa |-> tfidf_of(q, idf_map)] : idf_map \in {compute_idf(qa)}})

\* ----------------------------------------------------- compute_input_vector
compute_input_vector(text, idf_map) == tfidf_of(text, idf_map)

\* -------------------------------------------------------- cosine_similarity
\* dot_product / (mag1.sqrt() * mag2.sqrt()).  The weights are never
\* negative, so the quotient is the root of dot^2 / (mag1 * mag2); when a
\* magnitude is zero the dot product is zero too and 0.0 / 0.0 is NaN.
cosine_similarity(v1, v2) ==
    Only({IF mag1 = Zero \/ mag2 = Zero THEN NaN
          ELSE Sim(Only({RMul(r1, r2) : r1 \in {RDiv(dot, mag1)}, r2 \in {RDiv(dot, mag2)}})) :
             dot \in {Only({RSum(p, DOMAIN v1) :
                         p \in {[w \in DOMAIN v1 |-> RMul(v1[w], GetOr0(v2, w))]}})},
             mag1 \in {Only({RSum(p, DOMAIN v1) :
                         p \in {[w \in DOMAIN v1 |-> RMul(v1[w], v1[w])]}})},
             mag2 \in {Only({RSum(p, DOMAIN v2) :
                         p \in {[w \in DOMAIN v2 |-> RMul(v2[w], v2[w])]}})}})

\* ------------------------------------------------------------- get_response
\* The texts get_response can return.  A text is a sequence of pieces, and
\* format! puts the question between the pieces of the message.
NoMatchMessage ==
    <<"I'm sorry, I couldn't find a relevant question. Please try rephrasing your question.">>

ClosestMessage(question) ==
    <<"I'm sorry, I don't have specific information about that. The closest question I can answer is: '">>
      \o question \o <<"'. Would you like me to answer that instead?">>

\* similarity > max_similarity
Better(similarity, max_similarity) == F64Gt(similarity, max_similarity)

\* max_similarity < 0.5
BelowThreshold(max_similarity) == F64Gt(Half, max_similarity)

\* max_similarity >= 0.5
AtOrAboveThreshold(max_similarity) ==
    max_similarity.k = "num" /\ ~F64Gt(Half, max_similarity)

\* max_similarity > 0.5
AboveThreshold(max_similarity) == F64Gt(max_similarity, Half)

\* The selection loop over tfidf_vectors, in the map's iteration order:
\* the locals best_match and max_similarity after the questions of `order`
\* from position i on have been visited.
RECURSIVE SelectFrom(_, _, _, _, _)
SelectFrom(input_vector, vectors, order, i, acc) ==
    IF i > Len(order) THEN acc
    ELSE Only({SelectFrom(input_vector, vectors, order, i + 1, next) :
                  next \in {Only({IF Better(similarity, acc.max_similarity)
                                  THEN [best_match |-> order[i],
                                        max_similarity |-> similarity]
                                  ELSE acc :
                                     similarity \in {cosine_similarity(input_vector,
                                                         vectors[order[i]])}})}})

Select(input_vector, vectors, order) ==
    SelectFrom(input_vector, vectors, order, 1,
               [best_match |-> <<>>, max_similarity |-> F64Min])

\* The branches without the test of an empty best_match.
BranchOfAnyMatch(qa, sel) ==
    IF AboveThreshold(sel.max_similarity)
    THEN (IF sel.best_match \in DOMAIN qa THEN "answer" ELSE "panic")
    ELSE "closest"

\* The branch get_response returns from, its locals being sel; "panic" is
\* the unwrap of a missing answer.
BranchOf(qa, sel) ==
    IF AboveThreshold(sel.max_similarity)
    THEN (IF sel.best_match \in DOMAIN qa THEN "answer" ELSE "panic")
    ELSE IF sel.best_match = <<>> THEN "no_match"
    ELSE "closest"

\* What get_response returns from the locals sel: the branch, the locals and
\* the text.
Return(qa, sel, branch) ==
    [branch |-> branch,
     best_match |-> sel.best_match,
     max_similarity |-> sel.max_similarity,
     response |-> CASE branch = "answer" -> qa[sel.best_match]
                    [] branch = "closest" -> ClosestMessage(sel.best_match)
                    [] OTHER -> NoMatchMessage]

get_response(qa, vectors, idf_map, order, text) ==
    Only({Return(qa, sel, BranchOf(qa, sel)) :
             sel \in {Only({Select(iv, vectors, order) :
                          iv \in {compute_input_vector(text, idf_map)}})}})

\* ------------------------------------------------------ initialize_qa_data
\* A JSON field read with as_str(): text when the field is a string, and
\* not text when it is missing or of another type.
Text(s) == [text |-> TRUE, s |-> s]

NotText == [text |-> FALSE, s |-> <<>>]

\* The questions of the model's catalog files.
QuestionPool ==
    { <<>>,
      <<"a">>,
      <<"b">>,
      <<"A", " ", "c">>,
      <<"b", " ", "d">>,
      <<"a", " ", "a", " ", "c">>,
      <<"a", " ", "x", " ", "y", " ", "z">> }

\* The answer of the i-th entry of the file.
AnswerPool ==
    << <<"Thoughtful AI builds automation for healthcare.">>,
       <<"EVA automates eligibility verification.">>,
       <<"CAM automates claims processing.">>,
       <<"PHIL automates payment posting.">> >>

\* The entries the i-th place of the "questions" array can hold: a question
\* with its answer, or an entry one of whose fields is not text.
EntriesAt(i) ==
    {[question |-> Text(q), answer |-> Text(AnswerPool[i])] : q \in QuestionPool}
      \cup {[question |-> NotText, answer |-> Text(AnswerPool[i])],
            [question |-> Text(<<"a">>), answer |-> NotText]}

EntryLists ==
    UNION {{es \in [1..n -> UNION {EntriesAt(i) : i \in 1..n}] :
               \A i \in 1..n : es[i] \in EntriesAt(i)} : n \in 0..MaxEntries}

\* What File::open and serde_json::from_reader can meet: no file, a file
\* that is not JSON, JSON whose "questions" is not an array, and JSON whose
\* "questions" is an array of entries.
Files ==
    {[kind |-> "missing", is_array |-> FALSE, questions |-> <<>>],
     [kind |-> "malformed", is_array |-> FALSE, questions |-> <<>>],
     [kind |-> "json", is_array |-> FALSE, questions |-> <<>>]}
      \cup {[kind |-> "json", is_array |-> TRUE, questions |-> es] : es \in EntryLists}

\* The loop over the array: an entry whose two fields are text is inserted,
\* replacing an earlier entry of the same question; another entry is passed
\* over.
RECURSIVE InsertAll(_, _, _)
InsertAll(questions, i, qa) ==
    IF i > Len(questions) THEN qa
    ELSE LET e == questions[i]
         IN  InsertAll(questions, i + 1,
                 IF e.question.text /\ e.answer.text
                 THEN [q \in DOMAIN qa \cup {e.question.s} |->
                          IF q = e.question.s THEN e.answer.s ELSE qa[q]]
                 ELSE qa)

\* Whether the entry at i is inserted into qa_data.
Accepts(e) == e.question.text /\ e.answer.text

\* A load that takes a file it cannot open or parse for an empty catalog.
initialize_qa_data_or_empty(f) ==
    [ok |-> TRUE,
     qa_data |-> IF f.kind = "json" /\ f.is_array
                 THEN InsertAll(f.questions, 1, <<>>) ELSE <<>>]

\* initialize_qa_data: Err when the file cannot be opened or parsed, and
\* otherwise Ok of the map built from the array, empty without an array.
initialize_qa_data(f) ==
    IF f.kind \in {"missing", "malformed"} THEN [ok |-> FALSE, qa_data |-> <<>>]
    ELSE [ok |-> TRUE,
          qa_data |-> IF f.is_array THEN InsertAll(f.questions, 1, <<>>) ELSE <<>>]

\* --------------------------------------------------------------------- main
\* The lines read_line can return, with their line end; the empty line is
\* the end of the input.
Lines ==
    { <<>>,
      <<"\n">>,
      <<"a", "\n">>,
      <<"q", "\n">>,
      <<"a", " ", "b", "\n">>,
      <<"A", " ", "c", "\n">>,
      <<" ", "b", " ", " ", "d", " ", "\n">>,
      <<"e", "x", "i", "t", "\n">>,
      <<" ", "E", "x", "I", "T", " ", "\n">>,
      <<"e", "x", "i", "t", " ", "a", "\n">> }

ExitKeyword == <<"e", "x", "i", "t">>

Prompt == <<"> ">>

Banner == <<"Ask a question about Thoughtful AI (type 'exit' to quit):">>

Farewell ==
    <<"Thank you for using the Thoughtful AI Customer Support Agent. Goodbye!">>

\* The orders in which a HashMap with the keys S can be iterated.
IterationOrders(S) ==
    {o \in [1..Cardinality(S) -> S] : \A i, j \in 1..Cardinality(S) : o[i] = o[j] => i = j}

\* Every call meeting an order of its own.
OrdersOfCallAnew(order) == IterationOrders({order[i] : i \in 1..Len(order)})

\* The order in which a call of get_response iterates tfidf_vectors: the
\* map is not changed after it is built, so every call meets the same order.
OrdersOfCall(order) == {order}

VARIABLES
    pc,              \* where main is
    file,            \* qa_data.json
    qa_data,         \* main's qa_data
    tfidf_vectors,   \* main's tfidf_vectors
    idf,             \* main's idf
    order,           \* the iteration order of tfidf_vectors
    input,           \* the trimmed line of the turn
    response,        \* what get_response returned in the turn
    branch,          \* the branch get_response returned from
    best_match,      \* get_response's best_match at its return
    max_similarity,  \* get_response's max_similarity at its return
    out,             \* the last line written to stdout
    printed,         \* the responses written in the turn
    first            \* the first query of the process, its response, and
                     \* whether the same query was answered again

vars == <<pc, file, qa_data, tfidf_vectors, idf, order, input, response, branch,
          best_match, max_similarity, out, printed, first>>

index == <<qa_data, tfidf_vectors, idf, order>>

locals == <<input, response, branch, best_match, max_similarity>>

Init ==
    /\ pc = "start"
    /\ file \in Files
    /\ qa_data = <<>>
    /\ tfidf_vectors = <<>>
    /\ idf = <<>>
    /\ order = <<>>
    /\ input = <<>>
    /\ response = <<>>
    /\ branch = "none"
    /\ best_match = <<>>
    /\ max_similarity = F64Min
    /\ out = <<>>
    /\ printed = 0
    /\ first = [set |-> FALSE, input |-> <<>>, response |-> <<>>, again |-> FALSE]

\* main, line 8: initialize_qa_data().unwrap() with an Ok value.
LoadOk ==
    /\ pc = "start"
    /\ initialize_qa_data(file).ok
    /\ qa_data' = initialize_qa_data(file).qa_data
    /\ pc' = "loaded"
    /\ UNCHANGED <<file, tfidf_vectors, idf, order, locals, out, printed, first>>

\* main, line 8: the unwrap of an Err panics.
LoadAbort ==
    /\ pc = "start"
    /\ ~initialize_qa_data(file).ok
    /\ pc' = "aborted"
    /\ UNCHANGED <<file, index, locals, out, printed, first>>

\* main, lines 9-12: compute_tfidf and the two lines of the banner.
BuildIndex ==
    /\ pc = "loaded"
    /\ tfidf_vectors' = compute_tfidf_vectors(qa_data)
    /\ idf' = compute_idf(qa_data)
    /\ order' \in IterationOrders(DOMAIN qa_data)
    /\ out' = Banner
    /\ pc' = "prompt"
    /\ UNCHANGED <<file, qa_data, locals, printed, first>>

\* main, lines 15-20: the prompt, read_line and trim, in a new iteration of
\* the loop, whose locals are new.
ReadLine ==
    /\ pc = "prompt"
    /\ \E line \in Lines : input' = trim(line)
    /\ response' = <<>>
    /\ branch' = "none"
    /\ best_match' = <<>>
    /\ max_similarity' = F64Min
    /\ out' = Prompt
    /\ printed' = 0
    /\ pc' = "got_line"
    /\ UNCHANGED <<file, index, first>>

\* main, lines 16 and 19: flush or read_line fails and its unwrap panics.
IoError ==
    /\ pc = "prompt"
    /\ pc' = "io_panic"
    /\ UNCHANGED <<file, index, locals, out, printed, first>>

\* main, lines 22-25: the exit keyword.
Exit ==
    /\ pc = "got_line"
    /\ eq_ignore_ascii_case(input, ExitKeyword)
    /\ out' = Farewell
    /\ pc' = "done"
    /\ UNCHANGED <<file, index, locals, printed, first>>

\* main, lines 27-28: get_response and the print of its result.
Respond ==
    /\ pc = "got_line"
    /\ ~eq_ignore_ascii_case(input, ExitKeyword)
    /\ \E o \in OrdersOfCall(order) :
         \E r \in {get_response(qa_data, tfidf_vectors, idf, o, input)} :
             /\ branch' = r.branch
             /\ best_match' = r.best_match
             /\ max_similarity' = r.max_similarity
             /\ IF r.branch = "panic"
                THEN /\ pc' = "panicked"
                     /\ UNCHANGED <<response, out, printed, first>>
                ELSE /\ pc' = "prompt"
                     /\ response' = r.response
                     /\ out' = r.response
                     /\ printed' = printed + 1
                     /\ first' = IF ~first.set
                                 THEN [set |-> TRUE, input |-> input,
                                       response |-> r.response, again |-> FALSE]
                                 ELSE IF input = first.input
                                 THEN [first EXCEPT !.again = TRUE]
                                 ELSE first
    /\ UNCHANGED <<file, index, input>>

Next ==
    \/ LoadOk
    \/ LoadAbort
    \/ BuildIndex
    \/ ReadLine
    \/ IoError
    \/ Exit
    \/ Respond

Spec == Init /\ [][Next]_vars

\* ------------------------------------------------------------------ claims
\* A turn has ended: get_response returned and its result was printed.
Answered == pc = "prompt" /\ printed = 1

\* The similarity the turn's input has to the catalog question q.
SimOf(q) == cosine_similarity(compute_input_vector(input, idf), tfidf_vectors[q])

\* The similarity 1.0.
One == Sim(Rat(1, 1))

\* x == y on f64: false when either side is NaN.
F64Eq(x, y) == x.k = "num" /\ y.k = "num" /\ x.sq = y.sq

\* The questions of the file's entries whose two fields are text.
AcceptedQuestions ==
    {file.questions[i].question.s : i \in {j \in 1..Len(file.questions) :
                                             Accepts(file.questions[j])}}

\* Every question of the catalog has a word.
WellFormedCatalog == \A q \in DOMAIN qa_data : Words(q) # <<>>

\* C1: an input whose lowercase whitespace tokens are those of a catalog
\* question q, no other question scoring equally, selects q with similarity
\* 1.0 and returns the answer stored for q.  Stated of the catalogs whose
\* questions all have a word.
C1_ExactQuestionGetsItsAnswer ==
    (Answered /\ WellFormedCatalog) =>
      \A q \in DOMAIN qa_data :
        (/\ Words(input) = Words(q)
         /\ \A q2 \in DOMAIN qa_data \ {q} : ~F64Eq(SimOf(q2), SimOf(q)))
        => /\ best_match = q
           /\ max_similarity = One
           /\ branch = "answer"
           /\ response = qa_data[q]

\* C2: with a non-empty catalog, an input none of whose words is in the
\* vocabulary (an empty input among them) has similarity 0 to every catalog
\* vector and is answered with the closest-question message naming a
\* catalog question.  Stated of the catalogs whose questions all have a word.
C2_UnknownQueryGetsClosestQuestion ==
    (/\ Answered
     /\ DOMAIN qa_data # {}
     /\ WellFormedCatalog
     /\ \A i \in 1..Len(Words(input)) : Words(input)[i] \notin DOMAIN idf)
    => /\ \A q \in DOMAIN qa_data : SimOf(q) = Sim(Zero)
       /\ branch = "closest"
       /\ best_match \in DOMAIN qa_data
       /\ response = ClosestMessage(best_match)

\* C3: every line read that is not the exit keyword is followed, before the
\* next line is read, by exactly one printed response, and the unwrap of
\* get_response never panics.
C3_EveryLineGetsOneResponse ==
    /\ [](pc # "panicked")
    /\ [](pc = "got_line" => printed = 0)
    /\ [][(pc = "got_line" /\ to_lowercase(input) # ExitKeyword)
            => /\ pc' = "prompt"
               /\ printed' = 1
               /\ branch' \in {"answer", "closest", "no_match"}
               /\ out' = response']_vars
    /\ [][(pc' = "got_line") => pc = "prompt"]_vars

\* A non-empty catalog answered the empty line.
C3_Witness == Answered /\ input = <<>> /\ DOMAIN qa_data # {} /\ first.again

\* C4 as stated: a source that is missing, is not JSON, has no "questions"
\* array or has an entry without a text question or answer aborts the
\* process at startup.
C4_SchemaMismatchAborts ==
    (\/ file.kind # "json"
     \/ ~file.is_array
     \/ \E i \in 1..Len(file.questions) : ~Accepts(file.questions[i]))
    => pc \in {"start", "aborted"}

\* C4 amended: a source that is missing or is not JSON aborts the process at
\* startup, before anything is printed or any query is served, and nothing
\* else aborts it; a JSON source without a "questions" array loads as the
\* empty catalog, and an entry without a text question or answer is passed
\* over.
C4_OnlyUnreadableSourceAborts ==
    /\ file.kind \in {"missing", "malformed"} => pc \in {"start", "aborted"}
    /\ file.kind = "json" => pc # "aborted"
    /\ pc = "aborted" => out = <<>> /\ ~first.set /\ DOMAIN qa_data = {}
    /\ (file.kind = "json" /\ pc # "start") => DOMAIN qa_data = AcceptedQuestions

\* The process aborted on a file that is not JSON.
C4_Witness == pc = "aborted" /\ file.kind = "malformed"

\* C5: the loop ends, after the farewell, exactly when the trimmed line is
\* "exit" in any letter case; any other line is trimmed, answered by
\* get_response, its result printed, and the next line is read.
C5_LoopEndsOnExitOnly ==
    /\ [](pc = "done" => to_lowercase(input) = ExitKeyword /\ out = Farewell)
    /\ [][(pc = "got_line")
            => IF to_lowercase(input) = ExitKeyword
               THEN pc' = "done" /\ out' = Farewell
               ELSE pc' = "prompt" /\ out' = response' /\ input' = input]_vars
    /\ [][(pc = "prompt" /\ pc' = "got_line")
            => \E line \in Lines : input' = trim(line)]_vars
    /\ [][(pc # "done")]_vars

\* The loop ended on " ExIT " after it had answered a query.
C5_Witness == pc = "done" /\ input = <<"E", "x", "I", "T">> /\ first.set

\* C6: the stored answer is returned only when the best similarity is
\* strictly greater than 0.5; at 0.5 or below, a best match having been
\* found, the closest-question message with that question's text is.
C6_AnswerOnlyAboveHalf ==
    Answered =>
      /\ branch = "answer"
           => /\ max_similarity.k = "num"
              /\ RGt(max_similarity.sq, Rat(1, 4))
              /\ response = qa_data[best_match]
      /\ (max_similarity.k = "num" /\ ~RGt(max_similarity.sq, Rat(1, 4)))
           => /\ branch = "closest"
              /\ best_match \in DOMAIN qa_data
              /\ response = ClosestMessage(best_match)

\* The best similarity was exactly 0.5 and the closest question was named:
\* the query "a" against a question of four words, one of them "a", where
\* f64 gives 0.5 too.
C6_Witness ==
    /\ Answered
    /\ WellFormedCatalog
    /\ input = <<"a">>
    /\ max_similarity = Half
    /\ branch = "closest"
    /\ best_match = <<"a", " ", "x", " ", "y", " ", "z">>

\* C7: with an empty catalog every input, the empty one too, is answered
\* with the "couldn't find a relevant question" message.
C7_EmptyCatalogFindsNothing ==
    (Answered /\ DOMAIN qa_data = {})
    => /\ DOMAIN tfidf_vectors = {}
       /\ DOMAIN idf = {}
       /\ branch = "no_match"
       /\ response = NoMatchMessage

\* The empty catalog answered the empty line, after another query.
C7_Witness ==
    /\ Answered
    /\ DOMAIN qa_data = {}
    /\ input = <<>>
    /\ first.set
    /\ first.input # <<>>

\* The lowercase whitespace-delimited tokens of q: the lowercase of every
\* run q[i..j] without whitespace that whitespace or an end of q bounds.
TokensOf(q) ==
    {[k \in 1..(p[2] - p[1] + 1) |-> ToLowerChar(q[p[1] + k - 1])] :
        p \in {r \in (1..Len(q)) \X (1..Len(q)) :
                 /\ r[1] <= r[2]
                 /\ \A k \in r[1]..r[2] : ~IsWhitespace(q[k])
                 /\ r[1] = 1 \/ IsWhitespace(q[r[1] - 1])
                 /\ r[2] = Len(q) \/ IsWhitespace(q[r[2] + 1])}}

\* C8: for a non-empty catalog compute_tfidf returns one vector per catalog
\* question, and an IDF table whose keys are the lowercase
\* whitespace-delimited tokens of the catalog's questions.
C8_IndexKeys ==
    (pc \in {"prompt", "got_line", "done"} /\ DOMAIN qa_data # {})
    => /\ DOMAIN tfidf_vectors = DOMAIN qa_data
       /\ DOMAIN idf = UNION {TokensOf(q) : q \in DOMAIN qa_data}

\* The index of two questions, one with an uppercase letter.
C8_Witness ==
    /\ pc = "prompt"
    /\ DOMAIN qa_data = {<<"A", " ", "c">>, <<"b", " ", "d">>}
    /\ Cardinality(DOMAIN idf) = 4

C10_BestIsFirstGreatest ==
    (Answered /\ DOMAIN qa_data # {} /\ WellFormedCatalog)
    => \E i \in 1..Len(order) :
         /\ best_match = order[i]
         /\ \A j \in 1..Len(order) : ~F64Gt(SimOf(order[j]), SimOf(order[i]))
         /\ \A j \in 1..(i - 1) : ~F64Eq(SimOf(order[j]), SimOf(order[i]))
====
